---- MODULE Spec2Model ----
(***************************************************************************)
(* Two device adapters of the repository:                                  *)
(*   - FakeCamera (DeviceAdapters/FastCamera): the live-acquisition engine,*)
(*     a host thread calling StartSequenceAcquisition /                    *)
(*     StopSequenceAcquisition and worker threads executing                *)
(*     LiveThread::svc, interleaved statement by statement on the shared   *)
(*     fields stopRunning_, running_, imageCounter_, numImages_.           *)
(*   - NewportZStage (DeviceAdapters/NewportESP): the synchronous serial   *)
(*     command protocol.                                                   *)
(* Spec / FairSpec are the camera, StageSpec is the stage.                 *)
(***************************************************************************)
EXTENDS Integers, Sequences, FiniteSets, TLC

(* framesSinceStop counts the frames completed (line 245) while a           *)
(* StopSequenceAcquisition of the host is waiting in wait().               *)
VARIABLES
    \* ---- FakeCamera::LiveThread fields (FakeCamera.h:100-104)
    stopRunning_, running_, imageCounter_, numImages_,
    \* ---- FakeCamera::startTime_ (FakeCamera.h:71)
    startTime_,
    \* ---- MMDeviceThreadBase: the thread handle and the threads created so far
    thread_, threads,
    \* ---- the host thread: its position and the value its last call returned
    hpc, hN, hret,
    \* ---- what the host core has observed (callbacks received)
    prepCount, finCount, snapCount,
    \* ---- number of StopSequenceAcquisition calls the host has made
    stopCalls,
    \* ---- history of the current session (since the last activate())
    extStop, abortIssued, insertFailed, framesSinceStop,
    \* ---- a retried insertion failed / an insertion failed with a fatal result
    retryFailed, fatalInsert,
    \* ---- NewportZStage fields (Newport.cpp:69-81)
    conversionFactor_, lowerLimit_, upperLimit_,
    \* ---- the stage operation in progress: the top-level call, its argument,
    \* ---- the position in it, the depth of GetError's recursion
    sop, callArg, spc, depth,
    \* ---- what the last completed stage operation returned
    sret, error, errorCode,
    \* ---- the serial port: the last command line written, and per top-level
    \* ---- operation the number of lines written (by mnemonic) and read
    lastCmd, sent, reads,
    \* ---- NewportZStage::initialized_
    initialized_,
    \* ---- Busy's return_signal: the first character of the last TS reply read
    return_signal,
    \* ---- per top-level operation: the first non-OK result of a send or
    \* ---- receive step other than the TS polls of Busy, and whether a getter
    \* ---- has assigned its output argument
    tfail, outSet,
    \* ---- per top-level operation: the first non-OK result of a send or
    \* ---- receive step of a TS poll made by Busy
    pollFail

camVars == <<stopRunning_, running_, imageCounter_, numImages_, startTime_,
             thread_, threads, hpc, hN, hret,
             prepCount, finCount, snapCount,
             extStop, abortIssued, insertFailed, framesSinceStop, stopCalls,
             retryFailed, fatalInsert>>

stageVars == <<conversionFactor_, lowerLimit_, upperLimit_, sop, callArg, spc, depth,
               sret, error, errorCode, lastCmd, sent, reads,
               initialized_, return_signal, tfail, outSet, pollFail>>

vars == <<camVars, stageVars>>

-----------------------------------------------------------------------------
(* Bounds of the model *)

\* activate() is called at most this many times (thread ids 1..MaxThreads)
MaxThreads == 2
\* numImages is drawn from -1 .. MaxN
MaxN == 1
\* SnapImage is called at most this many times per session
MaxFrames == 2
\* the host calls StopSequenceAcquisition at most this many times
MaxStops == 2

(* Program constants *)

\* channels_(4)
Channels == 4

DEVICE_OK == "DEVICE_OK"
DEVICE_ERR == "DEVICE_ERR"
DEVICE_BUFFER_OVERFLOW == "DEVICE_BUFFER_OVERFLOW"
DEVICE_CAMERA_BUSY_ACQUIRING == "DEVICE_CAMERA_BUSY_ACQUIRING"

ThreadIds == 1..MaxThreads
NumImagesArgs == (-1)..MaxN
\* the tri-state result of the host's image sink
InsertResults == {DEVICE_OK, DEVICE_BUFFER_OVERFLOW, DEVICE_ERR}

-----------------------------------------------------------------------------
(* FakeCamera: helpers *)

\* LiveThread::IsRunning
IsRunning == running_

\* a camera whose IsCapturing() never reports a running session
IsCapturing_Never == FALSE

\* FakeCamera::IsCapturing
IsCapturing == IsRunning

\* FakeCamera::SnapImage: always returns DEVICE_OK
SnapImage == DEVICE_OK

\* a thread exists from activate() until svc has returned
Alive(w) == threads[w].pc \notin {"none", "done"}

LiveThreads == {w \in ThreadIds : Alive(w)}

\* MMDeviceThreadBase::wait() called by a thread other than the worker: join
\* semantics, returns once the thread behind the handle has exited (at once
\* when no thread was created)
JoinReturns == IF thread_ = 0 THEN TRUE ELSE threads[thread_].pc = "done"

SetPc(w, p) == threads' = [threads EXCEPT ![w].pc = p]

-----------------------------------------------------------------------------
(* FakeCamera: state after construction *)

CamInit ==
    /\ stopRunning_ = FALSE
    /\ running_ = FALSE
    /\ imageCounter_ = 0
    /\ numImages_ = -1
    /\ startTime_ = 0
    /\ thread_ = 0
    /\ threads = [w \in ThreadIds |-> [pc |-> "none", i |-> 0, tag |-> -1, ch |-> -1]]
    /\ hpc = "idle"
    /\ hN = -1
    /\ hret = DEVICE_OK
    /\ prepCount = 0
    /\ finCount = 0
    /\ snapCount = 0
    /\ extStop = FALSE
    /\ abortIssued = FALSE
    /\ insertFailed = FALSE
    /\ retryFailed = FALSE
    /\ fatalInsert = FALSE
    /\ framesSinceStop = 0
    /\ stopCalls = 0

-----------------------------------------------------------------------------
(* FakeCamera: the host thread *)

\* StartSequenceAcquisition, line 134: IsCapturing() is true
StartSequenceAcquisition_Busy(n) ==
    /\ hpc = "idle"
    /\ IsCapturing
    /\ hret' = DEVICE_CAMERA_BUSY_ACQUIRING
    /\ UNCHANGED stageVars
    /\ UNCHANGED <<retryFailed, fatalInsert>>
    /\ UNCHANGED <<stopRunning_, running_, imageCounter_, numImages_, startTime_,
                   thread_, threads, hpc, hN,
                   prepCount, finCount, snapCount,
                   extStop, abortIssued, insertFailed, framesSinceStop, stopCalls>>

\* StartSequenceAcquisition, line 134: IsCapturing() is false, the call goes on
StartSequenceAcquisition_Enter(n) ==
    /\ hpc = "idle"
    /\ ~IsCapturing
    /\ thread_ < MaxThreads
    /\ hpc' = "s136"
    /\ hN' = n
    /\ UNCHANGED stageVars
    /\ UNCHANGED <<retryFailed, fatalInsert>>
    /\ UNCHANGED <<stopRunning_, running_, imageCounter_, numImages_, startTime_,
                   thread_, threads, hret,
                   prepCount, finCount, snapCount,
                   extStop, abortIssued, insertFailed, framesSinceStop, stopCalls>>

\* MMDeviceThreadBase::activate(): a new thread is created, which will run svc;
\* the handle names the newest thread
activate ==
    /\ thread_' = thread_ + 1
    /\ threads' = [threads EXCEPT ![thread_ + 1] = [pc |-> "s173", i |-> 0, tag |-> -1, ch |-> -1]]

\* StartSequenceAcquisition, lines 136-144: PrepareForAcq, SetNumImages,
\* startTime_, activate()
StartSequenceAcquisition_Activate ==
    /\ hpc = "s136"
    /\ prepCount' = prepCount + 1
    /\ numImages_' = hN
    /\ startTime_' = prepCount + 1
    /\ activate
    /\ hret' = DEVICE_OK
    /\ hpc' = "idle"
    /\ snapCount' = 0
    /\ extStop' = FALSE
    /\ abortIssued' = FALSE
    /\ insertFailed' = FALSE
    /\ retryFailed' = FALSE
    /\ fatalInsert' = FALSE
    /\ framesSinceStop' = 0
    /\ hN' = -1
    /\ UNCHANGED stageVars
    /\ UNCHANGED <<stopRunning_, running_, imageCounter_,
                   finCount, stopCalls>>

\* StopSequenceAcquisition, line 151 -> Abort, line 260: stopRunning_ = true
StopSequenceAcquisition_Abort ==
    /\ hpc = "idle"
    /\ stopCalls < MaxStops
    /\ stopCalls' = stopCalls + 1
    /\ stopRunning_' = TRUE
    /\ hpc' = "s261"
    /\ extStop' = TRUE
    /\ abortIssued' = TRUE
    /\ framesSinceStop' = 0
    /\ UNCHANGED stageVars
    /\ UNCHANGED <<retryFailed, fatalInsert>>
    /\ UNCHANGED <<running_, imageCounter_, numImages_, startTime_,
                   thread_, threads, hN, hret,
                   prepCount, finCount, snapCount,
                   insertFailed>>

\* Abort, line 261: wait() returns to the host thread
StopSequenceAcquisition_Wait ==
    /\ hpc = "s261"
    /\ JoinReturns
    /\ hpc' = "s152"
    /\ UNCHANGED stageVars
    /\ UNCHANGED <<retryFailed, fatalInsert>>
    /\ UNCHANGED <<stopRunning_, running_, imageCounter_, numImages_, startTime_,
                   thread_, threads, hN, hret,
                   prepCount, finCount, snapCount,
                   extStop, abortIssued, insertFailed, stopCalls>>
    /\ framesSinceStop' = 0

\* StopSequenceAcquisition, lines 152-153: AcqFinished, return DEVICE_OK
StopSequenceAcquisition_Finish ==
    /\ hpc = "s152"
    /\ finCount' = finCount + 1
    /\ hret' = DEVICE_OK
    /\ hpc' = "idle"
    /\ UNCHANGED stageVars
    /\ UNCHANGED <<retryFailed, fatalInsert>>
    /\ UNCHANGED <<stopRunning_, running_, imageCounter_, numImages_, startTime_,
                   thread_, threads, hN,
                   prepCount, snapCount,
                   extStop, abortIssued, insertFailed, framesSinceStop, stopCalls>>

HostNext ==
    \/ \E n \in NumImagesArgs : StartSequenceAcquisition_Busy(n)
    \/ \E n \in NumImagesArgs : StartSequenceAcquisition_Enter(n)
    \/ StartSequenceAcquisition_Activate
    \/ StopSequenceAcquisition_Abort
    \/ StopSequenceAcquisition_Wait
    \/ StopSequenceAcquisition_Finish

-----------------------------------------------------------------------------
(* FakeCamera: a worker thread, LiveThread::svc, statement by statement *)

\* svc entered without clearing the cancellation flag
svc_173_NoReset(w) ==
    /\ threads[w].pc = "s173"
    /\ SetPc(w, "s174")
    /\ UNCHANGED stageVars
    /\ UNCHANGED <<retryFailed, fatalInsert>>
    /\ UNCHANGED <<stopRunning_, running_, imageCounter_, numImages_, startTime_, thread_,
                   hpc, hN, hret,
                   prepCount, finCount, snapCount,
                   extStop, abortIssued, insertFailed, framesSinceStop, stopCalls>>

\* line 173: stopRunning_ = false
svc_173(w) ==
    /\ threads[w].pc = "s173"
    /\ stopRunning_' = FALSE
    /\ SetPc(w, "s174")
    /\ UNCHANGED stageVars
    /\ UNCHANGED <<retryFailed, fatalInsert>>
    /\ UNCHANGED <<running_, imageCounter_, numImages_, startTime_, thread_,
                   hpc, hN, hret,
                   prepCount, finCount, snapCount,
                   extStop, abortIssued, insertFailed, framesSinceStop, stopCalls>>

\* line 174: running_ = true
svc_174(w) ==
    /\ threads[w].pc = "s174"
    /\ running_' = TRUE
    /\ SetPc(w, "s175")
    /\ UNCHANGED stageVars
    /\ UNCHANGED <<retryFailed, fatalInsert>>
    /\ UNCHANGED <<stopRunning_, imageCounter_, numImages_, startTime_, thread_,
                   hpc, hN, hret,
                   prepCount, finCount, snapCount,
                   extStop, abortIssued, insertFailed, framesSinceStop, stopCalls>>

\* line 175: imageCounter_ = 0
svc_175(w) ==
    /\ threads[w].pc = "s175"
    /\ imageCounter_' = 0
    /\ SetPc(w, "s179")
    /\ UNCHANGED stageVars
    /\ UNCHANGED <<retryFailed, fatalInsert>>
    /\ UNCHANGED <<stopRunning_, running_, numImages_, startTime_, thread_,
                   hpc, hN, hret,
                   prepCount, finCount, snapCount,
                   extStop, abortIssued, insertFailed, framesSinceStop, stopCalls>>

\* lines 178-180: the loop reads the cancellation flag once per iteration
svc_179(w) ==
    /\ threads[w].pc = "s179"
    /\ SetPc(w, IF stopRunning_ THEN "s255" ELSE "s182")
    /\ UNCHANGED stageVars
    /\ UNCHANGED <<retryFailed, fatalInsert>>
    /\ UNCHANGED <<stopRunning_, running_, imageCounter_, numImages_, startTime_,
                   thread_, hpc, hN, hret,
                   prepCount, finCount, snapCount,
                   extStop, abortIssued, insertFailed, framesSinceStop, stopCalls>>

\* lines 182-209: SnapImage; a failure is logged and ends the loop; otherwise
\* the metadata of the frame is built (ImageNumber tag, line 208) and the
\* channel loop starts at i = 0 with CameraChannelIndex 0 (lines 215-218)
\* (0 < GetNumberOfChannels())
svc_182(w) ==
    /\ threads[w].pc = "s182"
    /\ snapCount < MaxFrames
    /\ snapCount' = snapCount + 1
    /\ threads' = [threads EXCEPT ![w] =
                      IF SnapImage # DEVICE_OK
                         THEN [threads[w] EXCEPT !.pc = "s255"]
                         ELSE [pc |-> "s225", i |-> 0, tag |-> imageCounter_, ch |-> 0]]
    /\ UNCHANGED stageVars
    /\ UNCHANGED <<retryFailed, fatalInsert>>
    /\ UNCHANGED <<stopRunning_, running_, imageCounter_, numImages_, startTime_,
                   thread_, hpc, hN, hret,
                   prepCount, finCount,
                   extStop, abortIssued, insertFailed, framesSinceStop, stopCalls>>

\* a channel loop that leaves the CameraChannelIndex tag of the metadata as it is
NextChannel_StaleIndex(w) ==
    [pc |-> IF threads[w].i + 1 < Channels THEN "s225" ELSE "s245",
     i |-> threads[w].i + 1, tag |-> threads[w].tag, ch |-> threads[w].ch]

\* lines 212-218, 242: after the body for channel i the for loop goes on with
\* channel i + 1 while i + 1 < GetNumberOfChannels(), setting the
\* CameraChannelIndex tag of the metadata to it, and to line 245 otherwise
NextChannel(w) ==
    [pc |-> IF threads[w].i + 1 < Channels THEN "s225" ELSE "s245",
     i |-> threads[w].i + 1, tag |-> threads[w].tag,
     ch |-> IF threads[w].i + 1 < Channels THEN threads[w].i + 1 ELSE threads[w].ch]

\* lines 225-229, 212: InsertImage of channel i returns DEVICE_OK; i++
svc_225_Ok(w) ==
    /\ threads[w].pc = "s225"
    /\ threads' = [threads EXCEPT ![w] = NextChannel(w)]
    /\ UNCHANGED stageVars
    /\ UNCHANGED <<retryFailed, fatalInsert>>
    /\ UNCHANGED <<stopRunning_, running_, imageCounter_, numImages_, startTime_,
                   thread_, hpc, hN, hret,
                   prepCount, finCount, snapCount,
                   extStop, abortIssued, insertFailed, framesSinceStop, stopCalls>>

\* lines 225-230: InsertImage of channel i returns DEVICE_BUFFER_OVERFLOW
svc_225_Overflow(w) ==
    /\ threads[w].pc = "s225"
    /\ insertFailed' = TRUE
    /\ SetPc(w, "s231")
    /\ UNCHANGED stageVars
    /\ UNCHANGED <<retryFailed, fatalInsert>>
    /\ UNCHANGED <<stopRunning_, running_, imageCounter_, numImages_, startTime_,
                   thread_, hpc, hN, hret,
                   prepCount, finCount, snapCount,
                   extStop, abortIssued, framesSinceStop, stopCalls>>

\* line 231: ClearImageBuffer
svc_231(w) ==
    /\ threads[w].pc = "s231"
    /\ SetPc(w, "s232")
    /\ UNCHANGED stageVars
    /\ UNCHANGED <<retryFailed, fatalInsert>>
    /\ UNCHANGED <<stopRunning_, running_, imageCounter_, numImages_, startTime_,
                   thread_, hpc, hN, hret,
                   prepCount, finCount, snapCount,
                   extStop, abortIssued, insertFailed, framesSinceStop, stopCalls>>

\* the retry of line 232 repeated, with a new ClearImageBuffer, for as long as
\* the sink reports an overflow
svc_232_RetryAgain(w, r2) ==
    /\ threads[w].pc = "s232"
    /\ retryFailed' = (retryFailed \/ r2 # DEVICE_OK)
    /\ threads' = [threads EXCEPT ![w] =
                      IF r2 = DEVICE_BUFFER_OVERFLOW
                         THEN [threads[w] EXCEPT !.pc = "s231"]
                         ELSE NextChannel(w)]
    /\ UNCHANGED stageVars
    /\ UNCHANGED fatalInsert
    /\ UNCHANGED <<stopRunning_, running_, imageCounter_, numImages_, startTime_,
                   thread_, hpc, hN, hret,
                   prepCount, finCount, snapCount,
                   extStop, abortIssued, insertFailed, framesSinceStop, stopCalls>>

\* lines 232-237, 212: InsertImage of channel i once more, with the same
\* buffer and metadata; its result r2 is dropped; i++
svc_232(w, r2) ==
    /\ threads[w].pc = "s232"
    /\ retryFailed' = (retryFailed \/ r2 # DEVICE_OK)
    /\ threads' = [threads EXCEPT ![w] = NextChannel(w)]
    /\ UNCHANGED stageVars
    /\ UNCHANGED fatalInsert
    /\ UNCHANGED <<stopRunning_, running_, imageCounter_, numImages_, startTime_,
                   thread_, hpc, hN, hret,
                   prepCount, finCount, snapCount,
                   extStop, abortIssued, insertFailed, framesSinceStop, stopCalls>>

\* lines 238-241: InsertImage returns another error: LogMessage, and break
\* leaves the for loop (line 242), so that line 245 is next
svc_225_Error(w) ==
    /\ threads[w].pc = "s225"
    /\ insertFailed' = TRUE
    /\ fatalInsert' = TRUE
    /\ SetPc(w, "s245")
    /\ UNCHANGED stageVars
    /\ UNCHANGED retryFailed
    /\ UNCHANGED <<stopRunning_, running_, imageCounter_, numImages_, startTime_,
                   thread_, hpc, hN, hret,
                   prepCount, finCount, snapCount,
                   extStop, abortIssued, framesSinceStop, stopCalls>>

\* line 245: imageCounter_++
svc_245(w) ==
    /\ threads[w].pc = "s245"
    /\ imageCounter_' = imageCounter_ + 1
    /\ framesSinceStop' = IF hpc = "s261" THEN framesSinceStop + 1 ELSE framesSinceStop
    /\ SetPc(w, "s246")
    /\ UNCHANGED stageVars
    /\ UNCHANGED <<retryFailed, fatalInsert>>
    /\ UNCHANGED <<stopRunning_, running_, numImages_, startTime_, thread_,
                   hpc, hN, hret,
                   prepCount, finCount, snapCount,
                   extStop, abortIssued, insertFailed, stopCalls>>

\* line 246: numImages_ >= 0 && imageCounter_ >= numImages_
svc_246(w) ==
    /\ threads[w].pc = "s246"
    /\ SetPc(w, IF numImages_ >= 0 /\ imageCounter_ >= numImages_ THEN "s260" ELSE "s179")
    /\ UNCHANGED stageVars
    /\ UNCHANGED <<retryFailed, fatalInsert>>
    /\ UNCHANGED <<stopRunning_, running_, imageCounter_, numImages_, startTime_,
                   thread_, hpc, hN, hret,
                   prepCount, finCount, snapCount,
                   extStop, abortIssued, insertFailed, framesSinceStop, stopCalls>>

\* line 247 -> StopSequenceAcquisition, line 151 -> Abort, line 260, on the
\* worker thread: stopRunning_ = true
svc_247_Abort(w) ==
    /\ threads[w].pc = "s260"
    /\ stopRunning_' = TRUE
    /\ abortIssued' = TRUE
    /\ SetPc(w, "s261")
    /\ UNCHANGED stageVars
    /\ UNCHANGED <<retryFailed, fatalInsert>>
    /\ UNCHANGED <<running_, imageCounter_, numImages_, startTime_, thread_,
                   hpc, hN, hret,
                   prepCount, finCount, snapCount,
                   extStop, insertFailed, framesSinceStop, stopCalls>>

\* Abort, line 261, on the worker thread: wait() on a thread that has exited
\* (the handle names another, finished thread) returns
svc_247_WaitOther(w) ==
    /\ threads[w].pc = "s261"
    /\ thread_ # w
    /\ JoinReturns
    /\ SetPc(w, "s152")
    /\ UNCHANGED stageVars
    /\ UNCHANGED <<retryFailed, fatalInsert>>
    /\ UNCHANGED <<stopRunning_, running_, imageCounter_, numImages_, startTime_,
                   thread_, hpc, hN, hret,
                   prepCount, finCount, snapCount,
                   extStop, abortIssued, insertFailed, framesSinceStop, stopCalls>>

\* Abort, line 261, on the worker thread: wait() on the calling thread itself.
\* A thread joining itself either is refused at once (the join reports a
\* deadlock and returns) or waits for its own exit, which never comes.
svc_247_WaitSelf(w, refused) ==
    /\ threads[w].pc = "s261"
    /\ thread_ = w
    /\ SetPc(w, IF refused THEN "s152" ELSE "blocked")
    /\ UNCHANGED stageVars
    /\ UNCHANGED <<retryFailed, fatalInsert>>
    /\ UNCHANGED <<stopRunning_, running_, imageCounter_, numImages_, startTime_,
                   thread_, hpc, hN, hret,
                   prepCount, finCount, snapCount,
                   extStop, abortIssued, insertFailed, framesSinceStop, stopCalls>>

\* StopSequenceAcquisition, lines 152-153, on the worker thread: AcqFinished;
\* the call returns into the loop (line 254 -> 178)
svc_247_Finish(w) ==
    /\ threads[w].pc = "s152"
    /\ finCount' = finCount + 1
    /\ SetPc(w, "s179")
    /\ UNCHANGED stageVars
    /\ UNCHANGED <<retryFailed, fatalInsert>>
    /\ UNCHANGED <<stopRunning_, running_, imageCounter_, numImages_, startTime_,
                   thread_, hpc, hN, hret,
                   prepCount, snapCount,
                   extStop, abortIssued, insertFailed, framesSinceStop, stopCalls>>

\* line 255: running_ = false
svc_255(w) ==
    /\ threads[w].pc = "s255"
    /\ running_' = FALSE
    /\ SetPc(w, "s256")
    /\ UNCHANGED stageVars
    /\ UNCHANGED <<retryFailed, fatalInsert>>
    /\ UNCHANGED <<stopRunning_, imageCounter_, numImages_, startTime_, thread_,
                   hpc, hN, hret,
                   prepCount, finCount, snapCount,
                   extStop, abortIssued, insertFailed, framesSinceStop, stopCalls>>

\* line 256: return 0; the thread exits
svc_256(w) ==
    /\ threads[w].pc = "s256"
    /\ SetPc(w, "done")
    /\ UNCHANGED stageVars
    /\ UNCHANGED <<retryFailed, fatalInsert>>
    /\ UNCHANGED <<stopRunning_, running_, imageCounter_, numImages_, startTime_,
                   thread_, hpc, hN, hret,
                   prepCount, finCount, snapCount,
                   extStop, abortIssued, insertFailed, framesSinceStop, stopCalls>>

svc(w) ==
    \/ svc_173(w)
    \/ svc_174(w)
    \/ svc_175(w)
    \/ svc_179(w)
    \/ svc_182(w)
    \/ svc_225_Ok(w)
    \/ svc_225_Overflow(w)
    \/ svc_231(w)
    \/ \E r2 \in InsertResults : svc_232(w, r2)
    \/ svc_225_Error(w)
    \/ svc_245(w)
    \/ svc_246(w)
    \/ svc_247_Abort(w)
    \/ svc_247_WaitOther(w)
    \/ \E refused \in BOOLEAN : svc_247_WaitSelf(w, refused)
    \/ svc_247_Finish(w)
    \/ svc_255(w)
    \/ svc_256(w)

WorkerNext == \E w \in ThreadIds : svc(w)

-----------------------------------------------------------------------------
(* NewportZStage: the serial command protocol.                             *)
(* Positions, limits and distances are fixed-point numbers: the integer n  *)
(* stands for n / Scale (millimetres in native units, micrometres in user  *)
(* units).  The arguments drawn below are multiples of every conversion    *)
(* factor in use, so that the quotient pos / conversionFactor_ is exact.   *)

Scale == 10 * 1000

\* recursion depth of GetError: the controller answers 'H' at most this often
\* in one GetError call
MaxDepth == 2
\* the controller reports busy, or a TS exchange fails, at most this often in
\* one top-level operation
MaxPolls == 2

\* significant digits written by operator<<(double) on a default std::ostringstream
Precision == 6

DEVICE_SERIAL_ERR == "DEVICE_SERIAL_ERR"
ERR_POSITION_BEYOND_LIMITS == "ERR_POSITION_BEYOND_LIMITS"
CONTROLLER_ERROR == "CONTROLLER_ERROR"
ERR_TIMEOUT == "ERR_TIMEOUT"

\* what SendSerialCommand / GetSerialAnswer return
TransportResults == {DEVICE_OK, DEVICE_SERIAL_ERR}

Mnemonics == {"PA", "PA?", "PR", "OR", "TS", "TE", "VA", "VA?"}
NoCmd == [mn |-> "", arg |-> 0]
NoSent == [m \in Mnemonics |-> 0]

\* arguments of SetPositionUm, in user units
PosInputs == {n * 1000 : n \in {-500001, -500000, 0, 123456, 500000, 500001, 1000006}}
\* arguments of SetVelocity, native units
VelInputs == {5 * Scale, 1000006}
\* values written to the "Conversion Factor" property
FactorInputs == {1000, 500}
\* values written to "Max Position (mm)" and "Min Position (mm)", native units
MaxInputs == {500000, 1000006}
MinInputs == {-500000, 0}
\* the character that follows the echoed command in a TE reply
ErrorChars == {"@", "H", "E"}
\* the first character of a TS reply, as its character code: '@', 'D', 'F', 'P'
StatusChars == {64, 68, 70, 80}

Abs(x) == IF x < 0 THEN -x ELSE x

RECURSIVE Pow10(_)
Pow10(k) == IF k = 0 THEN 1 ELSE 10 * Pow10(k - 1)

\* the weight of the last significant digit kept when a has to be written with
\* Precision significant digits
RECURSIVE LastDigit(_, _)
LastDigit(a, p) == IF a < Pow10(Precision) * p THEN p ELSE LastDigit(a, 10 * p)

\* operator<<(double), lines 214 and 231: the value rounded to Precision
\* significant digits
FormatG(x) ==
    LET a == Abs(x)
        p == LastDigit(a, 1)
        r == ((a + p \div 2) \div p) * p
    IN  IF x < 0 THEN -r ELSE r

\* line 203: pos /= conversionFactor_
ToNative(pos) == pos \div conversionFactor_

\* MakeCommand(mn) followed by the argument
MakeCommand(mn, arg) == [mn |-> mn, arg |-> arg]

\* a status test with the mask 1 << 1
BusyBit_Bit1(c) == (c \div 2) % 2 = 1

\* Busy, line 174: return_signal & (1 << 2)
BusyBit(c) == (c \div 4) % 2 = 1

StageInit ==
    /\ conversionFactor_ = 1000
    /\ lowerLimit_ = -50 * Scale
    /\ upperLimit_ = 50 * Scale
    /\ sop = "none"
    /\ callArg = 0
    /\ spc = "idle"
    /\ depth = 0
    /\ sret = DEVICE_OK
    /\ error = FALSE
    /\ errorCode = ""
    /\ lastCmd = NoCmd
    /\ sent = NoSent
    /\ reads = 0
    /\ initialized_ = FALSE
    /\ return_signal = 0
    /\ tfail = DEVICE_OK
    /\ outSet = FALSE
    /\ pollFail = DEVICE_OK

\* a top-level operation op(arg) begins
Begin(op, arg) ==
    /\ spc = "idle"
    /\ sop' = op
    /\ callArg' = arg
    /\ depth' = 0

\* SendSerialCommand writes one command line
Send(cmd, counts) ==
    /\ lastCmd' = cmd
    /\ sent' = [counts EXCEPT ![cmd.mn] = @ + 1]

\* the operation in progress returns r
Return(r) ==
    /\ spc' = "idle"
    /\ sret' = r

\* SetPositionUm, lines 203-209: the converted position is beyond the limits
SetPositionUm_BeyondLimits(pos) ==
    /\ Begin("SetPositionUm", pos)
    /\ ToNative(pos) > upperLimit_ \/ lowerLimit_ > ToNative(pos)
    /\ Return(ERR_POSITION_BEYOND_LIMITS)
    /\ sent' = NoSent
    /\ reads' = 0
    /\ UNCHANGED <<conversionFactor_, lowerLimit_, upperLimit_, error, errorCode, lastCmd>>
    /\ tfail' = DEVICE_OK
    /\ outSet' = FALSE
    /\ UNCHANGED <<initialized_, return_signal>>
    /\ pollFail' = DEVICE_OK
    /\ UNCHANGED camVars

\* SetPositionUm, lines 203-218: within the limits, the PA command is sent and
\* the result r of the send is returned
SetPositionUm_Send(pos, r) ==
    /\ Begin("SetPositionUm", pos)
    /\ ~(ToNative(pos) > upperLimit_ \/ lowerLimit_ > ToNative(pos))
    /\ Send(MakeCommand("PA", FormatG(ToNative(pos))), NoSent)
    /\ Return(r)
    /\ reads' = 0
    /\ UNCHANGED <<conversionFactor_, lowerLimit_, upperLimit_, error, errorCode>>
    /\ tfail' = r
    /\ outSet' = FALSE
    /\ UNCHANGED <<initialized_, return_signal>>
    /\ pollFail' = DEVICE_OK
    /\ UNCHANGED camVars

\* OnConversionFactor, AfterSet (lines 499-504)
OnConversionFactor(v) ==
    /\ Begin("OnConversionFactor", v)
    /\ conversionFactor_' = v
    /\ Return(DEVICE_OK)
    /\ sent' = NoSent
    /\ reads' = 0
    /\ UNCHANGED <<lowerLimit_, upperLimit_, error, errorCode, lastCmd>>
    /\ tfail' = DEVICE_OK
    /\ outSet' = FALSE
    /\ UNCHANGED <<initialized_, return_signal>>
    /\ pollFail' = DEVICE_OK
    /\ UNCHANGED camVars

\* OnMaxPosition, AfterSet (lines 515-520)
OnMaxPosition(v) ==
    /\ Begin("OnMaxPosition", v)
    /\ upperLimit_' = v
    /\ Return(DEVICE_OK)
    /\ sent' = NoSent
    /\ reads' = 0
    /\ UNCHANGED <<conversionFactor_, lowerLimit_, error, errorCode, lastCmd>>
    /\ tfail' = DEVICE_OK
    /\ outSet' = FALSE
    /\ UNCHANGED <<initialized_, return_signal>>
    /\ pollFail' = DEVICE_OK
    /\ UNCHANGED camVars

\* OnMinPosition, AfterSet (lines 531-536)
OnMinPosition(v) ==
    /\ Begin("OnMinPosition", v)
    /\ lowerLimit_' = v
    /\ Return(DEVICE_OK)
    /\ sent' = NoSent
    /\ reads' = 0
    /\ UNCHANGED <<conversionFactor_, upperLimit_, error, errorCode, lastCmd>>
    /\ tfail' = DEVICE_OK
    /\ outSet' = FALSE
    /\ UNCHANGED <<initialized_, return_signal>>
    /\ pollFail' = DEVICE_OK
    /\ UNCHANGED camVars

\* GetError is called (line 279)
GetError_Call ==
    /\ Begin("GetError", 0)
    /\ spc' = "TE_send"
    /\ sent' = NoSent
    /\ reads' = 0
    /\ UNCHANGED <<conversionFactor_, lowerLimit_, upperLimit_, sret, error, errorCode, lastCmd>>
    /\ tfail' = DEVICE_OK
    /\ outSet' = FALSE
    /\ UNCHANGED <<initialized_, return_signal>>
    /\ pollFail' = DEVICE_OK
    /\ UNCHANGED camVars

\* GetError, lines 284-289: the TE command is sent; a failed send is returned
GetError_Send(r) ==
    /\ spc = "TE_send"
    /\ Send(MakeCommand("TE", 0), sent)
    /\ IF r # DEVICE_OK THEN Return(r) ELSE spc' = "TE_recv" /\ sret' = sret
    /\ UNCHANGED <<conversionFactor_, lowerLimit_, upperLimit_, sop, callArg, depth,
                   error, errorCode, reads>>
    /\ tfail' = r
    /\ UNCHANGED <<initialized_, return_signal, outSet>>
    /\ UNCHANGED pollFail
    /\ UNCHANGED camVars

\* GetError, lines 292-295: the receive fails and its result is returned
GetError_RecvFail(r) ==
    /\ spc = "TE_recv"
    /\ r # DEVICE_OK
    /\ reads' = reads + 1
    /\ Return(r)
    /\ UNCHANGED <<conversionFactor_, lowerLimit_, upperLimit_, sop, callArg, depth,
                   error, errorCode, lastCmd, sent>>
    /\ tfail' = r
    /\ UNCHANGED <<initialized_, return_signal, outSet>>
    /\ UNCHANGED pollFail
    /\ UNCHANGED camVars

\* GetError, lines 299-306: the reply carries '@'
GetError_NoError ==
    /\ spc = "TE_recv"
    /\ reads' = reads + 1
    /\ errorCode' = "@"
    /\ error' = FALSE
    /\ Return(DEVICE_OK)
    /\ UNCHANGED <<conversionFactor_, lowerLimit_, upperLimit_, sop, callArg, depth,
                   lastCmd, sent>>
    /\ UNCHANGED <<initialized_, return_signal, tfail, outSet>>
    /\ UNCHANGED pollFail
    /\ UNCHANGED camVars

\* GetError, lines 299-310: the reply carries 'H': SetOrigin is called
GetError_NotHomed ==
    /\ spc = "TE_recv"
    /\ depth < MaxDepth
    /\ reads' = reads + 1
    /\ errorCode' = "H"
    /\ error' = TRUE
    /\ spc' = "OR_send"
    /\ UNCHANGED <<conversionFactor_, lowerLimit_, upperLimit_, sop, callArg, depth,
                   sret, lastCmd, sent>>
    /\ UNCHANGED <<initialized_, return_signal, tfail, outSet>>
    /\ UNCHANGED pollFail
    /\ UNCHANGED camVars

\* a GetError that reports success for every reply character
GetError_ControllerError_AsOk(c) ==
    /\ spc = "TE_recv"
    /\ c \notin {"@", "H"}
    /\ reads' = reads + 1
    /\ errorCode' = c
    /\ error' = FALSE
    /\ Return(DEVICE_OK)
    /\ UNCHANGED <<conversionFactor_, lowerLimit_, upperLimit_, sop, callArg, depth,
                   lastCmd, sent>>
    /\ UNCHANGED <<initialized_, return_signal, tfail, outSet>>
    /\ UNCHANGED pollFail
    /\ UNCHANGED camVars

\* GetError, lines 299-322: the reply carries another character c
GetError_ControllerError(c) ==
    /\ spc = "TE_recv"
    /\ c \notin {"@", "H"}
    /\ reads' = reads + 1
    /\ errorCode' = c
    /\ error' = TRUE
    /\ Return(CONTROLLER_ERROR)
    /\ UNCHANGED <<conversionFactor_, lowerLimit_, upperLimit_, sop, callArg, depth,
                   lastCmd, sent>>
    /\ UNCHANGED <<initialized_, return_signal, tfail, outSet>>
    /\ UNCHANGED pollFail
    /\ UNCHANGED camVars

\* SetOrigin is called by the host (line 260)
SetOrigin_Call ==
    /\ Begin("SetOrigin", 0)
    /\ spc' = "OR_send"
    /\ sent' = NoSent
    /\ reads' = 0
    /\ UNCHANGED <<conversionFactor_, lowerLimit_, upperLimit_, sret, error, errorCode, lastCmd>>
    /\ tfail' = DEVICE_OK
    /\ outSet' = FALSE
    /\ UNCHANGED <<initialized_, return_signal>>
    /\ pollFail' = DEVICE_OK
    /\ UNCHANGED camVars

\* SetOrigin, lines 264-268: the OR command is sent; a failed send is returned
\* (by SetOrigin, and at lines 311-314 by the GetError that called it);
\* otherwise WaitForBusy starts polling
SetOrigin_Send(r) ==
    /\ spc = "OR_send"
    /\ Send(MakeCommand("OR", 0), sent)
    /\ IF r # DEVICE_OK THEN Return(r) ELSE spc' = "TS_send" /\ sret' = sret
    /\ UNCHANGED <<conversionFactor_, lowerLimit_, upperLimit_, sop, callArg, depth,
                   error, errorCode, reads>>
    /\ tfail' = r
    /\ UNCHANGED <<initialized_, return_signal, outSet>>
    /\ UNCHANGED pollFail
    /\ UNCHANGED camVars

\* Busy, lines 163-165, in WaitForBusy's loop (line 332): the TS command is
\* sent; on a failed send Busy returns the error code, which as a bool is
\* true, so that the loop polls again
Busy_Send(r) ==
    /\ spc = "TS_send"
    /\ r # DEVICE_OK => sent["TS"] < MaxPolls
    /\ Send(MakeCommand("TS", 0), sent)
    /\ spc' = IF r # DEVICE_OK THEN "TS_send" ELSE "TS_recv"
    /\ UNCHANGED <<conversionFactor_, lowerLimit_, upperLimit_, sop, callArg, depth,
                   sret, error, errorCode, reads>>
    /\ UNCHANGED <<initialized_, return_signal, tfail, outSet>>
    /\ pollFail' = IF pollFail = DEVICE_OK THEN r ELSE pollFail
    /\ UNCHANGED camVars

\* Busy, lines 168-176: the reply is read; a failed read makes Busy return true
\* as well, and so does a reply whose first character c has bit 2 set
Busy_RecvBusy(r, c) ==
    /\ spc = "TS_recv"
    /\ r # DEVICE_OK \/ BusyBit(c)
    /\ sent["TS"] <= MaxPolls
    /\ reads' = reads + 1
    /\ spc' = "TS_send"
    /\ UNCHANGED <<conversionFactor_, lowerLimit_, upperLimit_, sop, callArg, depth,
                   sret, error, errorCode, lastCmd, sent>>
    /\ return_signal' = IF r = DEVICE_OK THEN c ELSE return_signal
    /\ UNCHANGED <<initialized_, tfail, outSet>>
    /\ pollFail' = IF pollFail = DEVICE_OK THEN r ELSE pollFail
    /\ UNCHANGED camVars

\* Busy returns false: WaitForBusy and SetOrigin return DEVICE_OK (lines 339,
\* 268); a GetError that called SetOrigin calls itself again (line 315), and
\* Initialize goes on to GetPositionUm (line 143)
Busy_RecvReady(c) ==
    /\ spc = "TS_recv"
    /\ ~BusyBit(c)
    /\ reads' = reads + 1
    /\ CASE sop = "GetError" -> spc' = "TE_send" /\ depth' = depth + 1 /\ sret' = sret
         [] sop = "Initialize" -> spc' = "PA?_send" /\ depth' = depth /\ sret' = sret
         [] OTHER -> Return(DEVICE_OK) /\ depth' = depth
    /\ UNCHANGED <<conversionFactor_, lowerLimit_, upperLimit_, sop, callArg,
                   error, errorCode, lastCmd, sent>>
    /\ return_signal' = c
    /\ UNCHANGED <<initialized_, tfail, outSet>>
    /\ UNCHANGED pollFail
    /\ UNCHANGED camVars

\* SetRelativePositionUm, lines 221-236: the converted distance is sent with PR
\* and the result r of the send is returned
SetRelativePositionUm(pos, r) ==
    /\ Begin("SetRelativePositionUm", pos)
    /\ Send(MakeCommand("PR", FormatG(ToNative(pos))), NoSent)
    /\ Return(r)
    /\ reads' = 0
    /\ tfail' = r
    /\ outSet' = FALSE
    /\ UNCHANGED <<conversionFactor_, lowerLimit_, upperLimit_, error, errorCode,
                   initialized_, return_signal>>
    /\ pollFail' = DEVICE_OK
    /\ UNCHANGED camVars

\* SetVelocity, lines 356-363: the VA command is sent and the result r of the
\* send is returned
SetVelocity(velocity, r) ==
    /\ Begin("SetVelocity", velocity)
    /\ Send(MakeCommand("VA", FormatG(velocity)), NoSent)
    /\ Return(r)
    /\ reads' = 0
    /\ tfail' = r
    /\ outSet' = FALSE
    /\ UNCHANGED <<conversionFactor_, lowerLimit_, upperLimit_, error, errorCode,
                   initialized_, return_signal>>
    /\ pollFail' = DEVICE_OK
    /\ UNCHANGED camVars

\* GetPositionUm is called by the host (line 238)
GetPositionUm_Call ==
    /\ Begin("GetPositionUm", 0)
    /\ spc' = "PA?_send"
    /\ sent' = NoSent
    /\ reads' = 0
    /\ tfail' = DEVICE_OK
    /\ outSet' = FALSE
    /\ UNCHANGED <<conversionFactor_, lowerLimit_, upperLimit_, sret, error, errorCode,
                   lastCmd, initialized_, return_signal>>
    /\ pollFail' = DEVICE_OK
    /\ UNCHANGED camVars

\* GetPositionUm, lines 241-243: the PA? command is sent; a failed send is
\* returned (by GetPositionUm, and at line 144 by the Initialize that called it)
GetPositionUm_Send(r) ==
    /\ spc = "PA?_send"
    /\ Send(MakeCommand("PA?", 0), sent)
    /\ IF r # DEVICE_OK THEN Return(r) ELSE spc' = "PA?_recv" /\ sret' = sret
    /\ tfail' = r
    /\ UNCHANGED <<conversionFactor_, lowerLimit_, upperLimit_, sop, callArg, depth,
                   error, errorCode, reads, initialized_, return_signal, outSet>>
    /\ UNCHANGED pollFail
    /\ UNCHANGED camVars

\* GetPositionUm, lines 247-255: a failed receive is returned; otherwise pos is
\* assigned and DEVICE_OK returned.  In Initialize (lines 144-151) the
\* Position property is then created and initialized_ set.
GetPositionUm_Recv(r) ==
    /\ spc = "PA?_recv"
    /\ reads' = reads + 1
    /\ Return(r)
    /\ tfail' = r
    /\ outSet' = (r = DEVICE_OK)
    /\ initialized_' = IF sop = "Initialize" /\ r = DEVICE_OK THEN TRUE ELSE initialized_
    /\ UNCHANGED <<conversionFactor_, lowerLimit_, upperLimit_, sop, callArg, depth,
                   error, errorCode, lastCmd, sent, return_signal>>
    /\ UNCHANGED pollFail
    /\ UNCHANGED camVars

\* GetVelocity is called by the host (line 369)
GetVelocity_Call ==
    /\ Begin("GetVelocity", 0)
    /\ spc' = "VA?_send"
    /\ sent' = NoSent
    /\ reads' = 0
    /\ tfail' = DEVICE_OK
    /\ outSet' = FALSE
    /\ UNCHANGED <<conversionFactor_, lowerLimit_, upperLimit_, sret, error, errorCode,
                   lastCmd, initialized_, return_signal>>
    /\ pollFail' = DEVICE_OK
    /\ UNCHANGED camVars

\* GetVelocity, lines 372-374: the VA? command is sent; a failed send is returned
GetVelocity_Send(r) ==
    /\ spc = "VA?_send"
    /\ Send(MakeCommand("VA?", 0), sent)
    /\ IF r # DEVICE_OK THEN Return(r) ELSE spc' = "VA?_recv" /\ sret' = sret
    /\ tfail' = r
    /\ UNCHANGED <<conversionFactor_, lowerLimit_, upperLimit_, sop, callArg, depth,
                   error, errorCode, reads, initialized_, return_signal, outSet>>
    /\ UNCHANGED pollFail
    /\ UNCHANGED camVars

\* GetVelocity, lines 378-386: after a failed receive DEVICE_OK is returned
\* (line 379) and velocity is left as it was; otherwise velocity is assigned
GetVelocity_Recv(r) ==
    /\ spc = "VA?_recv"
    /\ reads' = reads + 1
    /\ Return(DEVICE_OK)
    /\ tfail' = r
    /\ outSet' = (r = DEVICE_OK)
    /\ UNCHANGED <<conversionFactor_, lowerLimit_, upperLimit_, sop, callArg, depth,
                   error, errorCode, lastCmd, sent, initialized_, return_signal>>
    /\ UNCHANGED pollFail
    /\ UNCHANGED camVars

\* Initialize is called (line 127); it starts with SetOrigin (line 137)
Initialize_Call ==
    /\ Begin("Initialize", 0)
    /\ ~initialized_
    /\ spc' = "OR_send"
    /\ sent' = NoSent
    /\ reads' = 0
    /\ tfail' = DEVICE_OK
    /\ outSet' = FALSE
    /\ UNCHANGED <<conversionFactor_, lowerLimit_, upperLimit_, sret, error, errorCode,
                   lastCmd, initialized_, return_signal>>
    /\ pollFail' = DEVICE_OK
    /\ UNCHANGED camVars

\* Shutdown, lines 154-158
Shutdown ==
    /\ Begin("Shutdown", 0)
    /\ initialized_' = FALSE
    /\ Return(DEVICE_OK)
    /\ sent' = NoSent
    /\ reads' = 0
    /\ tfail' = DEVICE_OK
    /\ outSet' = FALSE
    /\ UNCHANGED <<conversionFactor_, lowerLimit_, upperLimit_, error, errorCode,
                   lastCmd, return_signal>>
    /\ pollFail' = DEVICE_OK
    /\ UNCHANGED camVars

StageNext ==
    \/ \E pos \in PosInputs : SetPositionUm_BeyondLimits(pos)
    \/ \E pos \in PosInputs, r \in TransportResults : SetPositionUm_Send(pos, r)
    \/ \E v \in FactorInputs : OnConversionFactor(v)
    \/ \E v \in MaxInputs : OnMaxPosition(v)
    \/ \E v \in MinInputs : OnMinPosition(v)
    \/ GetError_Call
    \/ \E r \in TransportResults : GetError_Send(r)
    \/ \E r \in TransportResults : GetError_RecvFail(r)
    \/ GetError_NoError
    \/ GetError_NotHomed
    \/ \E c \in ErrorChars : GetError_ControllerError(c)
    \/ SetOrigin_Call
    \/ \E r \in TransportResults : SetOrigin_Send(r)
    \/ \E r \in TransportResults : Busy_Send(r)
    \/ \E r \in TransportResults, c \in StatusChars : Busy_RecvBusy(r, c)
    \/ \E c \in StatusChars : Busy_RecvReady(c)
    \/ \E pos \in PosInputs, r \in TransportResults : SetRelativePositionUm(pos, r)
    \/ \E v \in VelInputs, r \in TransportResults : SetVelocity(v, r)
    \/ GetPositionUm_Call
    \/ \E r \in TransportResults : GetPositionUm_Send(r)
    \/ \E r \in TransportResults : GetPositionUm_Recv(r)
    \/ GetVelocity_Call
    \/ \E r \in TransportResults : GetVelocity_Send(r)
    \/ \E r \in TransportResults : GetVelocity_Recv(r)
    \/ Initialize_Call
    \/ Shutdown

-----------------------------------------------------------------------------
Init == CamInit /\ StageInit

Next == HostNext \/ WorkerNext

Spec == Init /\ [][Next]_vars

StageSpec == Init /\ [][StageNext]_vars

\* every thread that can take a step eventually takes one (the scheduler is fair
\* to threads; the host is free to make no further call)
FairSpec ==
    /\ Spec
    /\ \A w \in ThreadIds : WF_vars(svc(w))
    /\ WF_vars(StopSequenceAcquisition_Wait \/ StopSequenceAcquisition_Finish
               \/ StartSequenceAcquisition_Activate)

-----------------------------------------------------------------------------
(* Claims about the live-acquisition engine *)

\* C1: in a session started with numImages = N >= 0, with every InsertImage
\* succeeding and no external stop, SnapImage is never called more than N
\* times, and once the newest worker has left the loop imageCounter_ = N.
C1_ExactlyNFrames ==
    (thread_ # 0 /\ numImages_ >= 0 /\ ~extStop /\ ~insertFailed) =>
        /\ snapCount <= numImages_
        /\ (threads[thread_].pc \in {"s255", "s256", "done"} => imageCounter_ = numImages_)

\* C2: a worker that has requested its own stop (count reached, no external
\* stop, no sink failure) eventually exits, so that the engine is idle again.
C2_SelfStopReturnsToIdle ==
    (thread_ = 1 /\ threads[1].pc = "s260" /\ ~extStop /\ ~insertFailed)
        ~> (threads[1].pc = "done" \/ extStop)

C4_AtMostOneWorker == Cardinality(LiveThreads) <= 1

\* C5: when the host's StopSequenceAcquisition is past wait() (about to issue
\* AcqFinished and return), every worker has exited and IsCapturing() is false.
C5_StopReturnsAfterWorkerExit ==
    hpc = "s152" => (LiveThreads = {} /\ ~IsCapturing)

\* C6: after the host's StopSequenceAcquisition has set the cancellation flag,
\* at most one more frame is completed (framesSinceStop counts the executions
\* of line 245 while that call waits); stated for sessions without sink
\* failures.
C6_AtMostOneFrameAfterStop == ~insertFailed => framesSinceStop <= 1

\* C7: StopSequenceAcquisition on an idle engine (no worker exists):
\*  (a) wait() does not block;
\*  (b) every step of the call leaves running_, imageCounter_, numImages_,
\*      startTime_ and the threads as they were, the flag ends up set (so a
\*      second stop changes nothing more) and the call returns DEVICE_OK;
\*  (c) a later session is not cancelled by it: when no stop was requested
\*      since the last activate() and the newest worker is past line 173, the
\*      cancellation flag is clear.
C7_NoBlock ==
    (hpc = "s261" /\ LiveThreads = {}) => ENABLED StopSequenceAcquisition_Wait

C7_NotCancelled ==
    (thread_ # 0 /\ ~abortIssued /\ threads[thread_].pc \notin {"none", "s173"})
        => ~stopRunning_

C7_IdleStopStep ==
    (LiveThreads = {} /\ hpc' # hpc /\ hpc # "s136" /\ hpc' # "s136") =>
        /\ UNCHANGED <<running_, imageCounter_, numImages_, startTime_, thread_, threads>>
        /\ stopRunning_'
        /\ ~running_'
        /\ (hpc' = "idle" => hret' = DEVICE_OK)

C8_CapturingWhileWorkerExists == (LiveThreads # {}) => IsCapturing

\* worker w calls SnapImage / InsertImage in this step
Snapped(w) == threads[w].pc = "s182" /\ threads'[w] # threads[w]
Inserted(w) == threads[w].pc \in {"s225", "s232"} /\ threads'[w] # threads[w]

\* C11: once the retry that follows an overflow has failed as well, the
\* session's worker calls neither SnapImage nor InsertImage any more (stated
\* for the first session, whose worker is thread 1).
C11_RetryFailureEndsLoop ==
    [][(thread_ = 1 /\ retryFailed) => (~Snapped(1) /\ ~Inserted(1))]_vars

\* C12: once InsertImage has returned a fatal result (neither DEVICE_OK nor
\* DEVICE_BUFFER_OVERFLOW), the session's worker inserts no further channel,
\* snaps no further frame, and imageCounter_ does not advance.
C12_FatalInsertEndsLoop ==
    [][(thread_ = 1 /\ fatalInsert)
          => (~Snapped(1) /\ ~Inserted(1) /\ imageCounter_' = imageCounter_)]_vars

\* C13: a fatal sink result in a session that the host never stops leads to
\* the engine being idle with an AcqFinished notification delivered (no
\* StopSequenceAcquisition call of the host has been made at all, so the
\* notification counted can only come from the worker).
C13_FailureEndsSessionGracefully ==
    (thread_ = 1 /\ fatalInsert /\ stopCalls = 0)
        ~> ((~IsCapturing /\ finCount > 0) \/ stopCalls > 0 \/ thread_ # 1)

\* C18: a worker that has seen DEVICE_BUFFER_OVERFLOW for channel i calls
\* ClearImageBuffer once (it reaches line 231 only from the overflowing insert
\* of line 225 and leaves it only for the retry of line 232, with i and the
\* metadata tag unchanged), retries once (it reaches line 232 only from line
\* 231) and then moves on to channel i + 1 whatever the retry returned.
C18_OneClearOneRetry ==
    [][\A w \in ThreadIds :
          (threads'[w] # threads[w]) =>
             /\ threads[w].pc = "s231" => threads'[w] = [threads[w] EXCEPT !.pc = "s232"]
             /\ threads[w].pc = "s232" =>
                   /\ threads'[w].i = threads[w].i + 1
                   /\ threads'[w].tag = threads[w].tag
                   /\ threads'[w].pc \in {"s225", "s245"}
             /\ threads'[w].pc = "s231" => threads[w] = [threads'[w] EXCEPT !.pc = "s225"]
             /\ threads'[w].pc = "s232" => threads[w].pc = "s231"]_vars

\* a retry has been made and has failed, and the worker has moved on to the
\* next channel
C18_Witness ==
    /\ thread_ = 1
    /\ retryFailed
    /\ ~fatalInsert
    /\ threads[1].pc = "s225"
    /\ threads[1].i = 1
    /\ threads[1].tag = 0

\* C19: imageCounter_ changes only by the reset of line 175 and by the single
\* increment of line 245, the ImageNumber tag does not change between the
\* insertions of one frame, and the tag a worker gives to a frame is one more
\* than the tag it gave to its previous frame (0 for its first frame; a worker
\* that has tagged no frame yet carries -1).
C19_ImageNumbersInSequence ==
    [][/\ imageCounter_' # imageCounter_
            => \E w \in ThreadIds :
                  \/ threads[w].pc = "s175" /\ imageCounter_' = 0
                  \/ threads[w].pc = "s245" /\ imageCounter_' = imageCounter_ + 1
       /\ \A w \in ThreadIds :
            /\ Inserted(w) => threads'[w].tag = threads[w].tag
            /\ Snapped(w) => threads'[w].tag = threads[w].tag + 1]_vars

\* C23: for every worker w:
\*  (a) an InsertImage at line 225 is for the channel buffer i < channels, with
\*      CameraChannelIndex i in the metadata;
\*  (b) a successful insertion of channel i is followed by channel i + 1, or,
\*      after the last channel, by line 245;
\*  (c) SnapImage starts the channel loop at 0;
\*  (d) the newest worker, in a session without sink failures, calls SnapImage
\*      only for its first frame or after the last channel of its previous
\*      frame was inserted.
C23_ChannelsInOrder ==
    [][\A w \in ThreadIds :
          /\ (Inserted(w) /\ threads[w].pc = "s225") =>
                /\ threads[w].i < Channels
                /\ threads[w].ch = threads[w].i
          /\ (Inserted(w) /\ threads[w].pc = "s225" /\ threads'[w].i # threads[w].i) =>
                /\ threads'[w].i = threads[w].i + 1
                /\ threads'[w].pc = (IF threads'[w].i < Channels THEN "s225" ELSE "s245")
          /\ Snapped(w) => (threads'[w].i = 0 /\ threads'[w].ch = 0)
          /\ (Snapped(w) /\ w = thread_ /\ ~insertFailed) =>
                (threads[w].tag = -1 \/ threads[w].i = Channels)]_vars

\* the only worker is about to insert the last channel of its second frame,
\* no insertion having failed
C23_Witness ==
    /\ thread_ = 1
    /\ ~insertFailed
    /\ threads[1].pc = "s225"
    /\ threads[1].tag = 1
    /\ threads[1].i = Channels - 1
    /\ threads[1].ch = Channels - 1

\* C24: the host has received at most as many AcqFinished notifications as
\* PrepareForAcq notifications.
C24_NotificationsPaired == finCount <= prepCount

-----------------------------------------------------------------------------
(* Claims about the stage command protocol *)

\* C9: after SetPositionUm(pos), with native = pos / conversionFactor_: beyond
\* the limits it has returned ERR_POSITION_BEYOND_LIMITS and written nothing;
\* within the limits (boundaries included) it has written exactly one line,
\* the PA command carrying native, read nothing, and returned the result of
\* the send; the target written lies within [lowerLimit_, upperLimit_].
C9_AbsoluteMoveWithinLimits ==
    sop = "SetPositionUm" =>
        LET native == callArg \div conversionFactor_
        IN  /\ (native < lowerLimit_ \/ native > upperLimit_) =>
                    (sret = ERR_POSITION_BEYOND_LIMITS /\ sent = NoSent)
            /\ (lowerLimit_ <= native /\ native <= upperLimit_) =>
                    /\ sent = [NoSent EXCEPT !["PA"] = 1]
                    /\ reads = 0
                    /\ lastCmd = [mn |-> "PA", arg |-> native]
                    /\ sret \in TransportResults
            /\ sent["PA"] > 0 =>
                    (lowerLimit_ <= lastCmd.arg /\ lastCmd.arg <= upperLimit_)

\* C10: one GetError call makes at most two TE exchanges and sends at most one
\* OR command.
C10_GetErrorRetriesOnce ==
    sop = "GetError" => (sent["TE"] <= 2 /\ sent["OR"] <= 1)

\* the operations of C14
ExchangeOps == {"SetPositionUm", "SetRelativePositionUm", "GetPositionUm",
                "GetError", "SetVelocity", "GetVelocity"}

\* C14: in each of the six operations, once a send or receive step has
\* returned a non-OK code the operation has returned, with that code; and a
\* getter that has returned DEVICE_OK has assigned its output.
C14_TransportErrorPropagates ==
    sop \in ExchangeOps =>
        /\ tfail # DEVICE_OK => (spc = "idle" /\ sret = tfail)
        /\ (sop \in {"GetPositionUm", "GetVelocity"} /\ spc = "idle" /\ sret = DEVICE_OK)
               => outSet

\* C15: after SetRelativePositionUm(delta): exactly one line has been written,
\* the PR command carrying delta / conversionFactor_, nothing has been read,
\* and the result is that of the send (never ERR_POSITION_BEYOND_LIMITS),
\* whatever the limits are.
C15_RelativeMoveUnchecked ==
    sop = "SetRelativePositionUm" =>
        /\ sent = [NoSent EXCEPT !["PR"] = 1]
        /\ reads = 0
        /\ lastCmd = [mn |-> "PR", arg |-> callArg \div conversionFactor_]
        /\ sret = tfail
        /\ sret # ERR_POSITION_BEYOND_LIMITS

\* C16: when GetError has read a TE reply, the character after the echoed
\* command (errorCode) decides: '@' ends the call with DEVICE_OK and error =
\* false; a character other than '@' and 'H' ends it with CONTROLLER_ERROR and
\* error = true; in both cases nothing more is written.
C16_GetErrorClassifies ==
    [][(spc = "TE_recv" /\ reads' = reads + 1 /\ tfail' = DEVICE_OK) =>
          /\ errorCode' = "@" =>
                (spc' = "idle" /\ sret' = DEVICE_OK /\ ~error' /\ sent' = sent)
          /\ errorCode' \notin {"@", "H"} =>
                (spc' = "idle" /\ sret' = CONTROLLER_ERROR /\ error' /\ sent' = sent)]_vars

\* GetError has returned CONTROLLER_ERROR for the reply character 'E' after one
\* TE exchange, without homing
C16_Witness ==
    /\ sop = "GetError"
    /\ spc = "idle"
    /\ sret = CONTROLLER_ERROR
    /\ errorCode = "E"
    /\ error
    /\ sent = [NoSent EXCEPT !["TE"] = 1]
    /\ reads = 1

\* C17: once Initialize has succeeded, no step changes conversionFactor_,
\* lowerLimit_ or upperLimit_.
C17_LimitsFixedAfterInitialize ==
    [][initialized_ =>
          UNCHANGED <<conversionFactor_, lowerLimit_, upperLimit_>>]_vars

\* C20: in SetOrigin, OR is written once and before any TS; a failed OR send is
\* returned without a poll; DEVICE_OK is returned only after a TS exchange
\* whose reply has bit 2 of its first character clear, that exchange being the
\* last thing on the port; ERR_TIMEOUT is never returned.
C20_SetOriginPollsUntilReady ==
    sop = "SetOrigin" =>
        /\ sent["OR"] = (IF spc = "OR_send" THEN 0 ELSE 1)
        /\ sent["TS"] > 0 => sent["OR"] = 1
        /\ tfail # DEVICE_OK => (spc = "idle" /\ sret = tfail /\ sent["TS"] = 0 /\ reads = 0)
        /\ (spc = "idle" /\ tfail = DEVICE_OK) =>
              /\ sret = DEVICE_OK
              /\ sent["TS"] >= 1
              /\ reads >= 1
              /\ lastCmd.mn = "TS"
              /\ (return_signal \div 4) % 2 = 0
        /\ spc = "idle" => sret # ERR_TIMEOUT

\* SetOrigin has returned DEVICE_OK after the controller reported busy to the
\* first poll and ready to the second
C20_Witness ==
    /\ sop = "SetOrigin"
    /\ spc = "idle"
    /\ sret = DEVICE_OK
    /\ sent["TS"] = 2
    /\ reads = 2
    /\ return_signal = 64

\* C21: once a send or receive step of a TS poll has failed, the operation has
\* returned, with the code of that step (no further poll is made).
C21_PollFailureAbortsWait ==
    pollFail # DEVICE_OK => (spc = "idle" /\ sret = pollFail)

RECURSIVE SumSent(_, _)
SumSent(counts, ms) ==
    IF ms = {} THEN 0
    ELSE LET m == CHOOSE x \in ms : TRUE
         IN  counts[m] + SumSent(counts, ms \ {m})

\* C22: when an operation in which no send and no receive step failed has
\* returned, it has read as many response lines as it has written command
\* lines.
C22_OneReadPerCommand ==
    (spc = "idle" /\ tfail = DEVICE_OK /\ pollFail = DEVICE_OK)
        => reads = SumSent(sent, Mnemonics)

====
